---- MODULE Spec2Model ----
(***************************************************************************)
(* Camera capture core of apis-edge: the two capture devices (USBCamera,   *)
(* PiCamera), Frame.create, and the capture supervisor of main().          *)
(*                                                                         *)
(* A device is the record cam; its fields carry the names of the Python    *)
(* attributes without the leading underscore.  The handle (cap for the     *)
(* generic backend, picam for the integrated one) is                       *)
(*    "none"  the attribute is None                                        *)
(*    "live"  an object whose device is opened                             *)
(*    "dead"  a VideoCapture object whose isOpened() is False              *)
(* Time stamps are integers read from a clock that never runs backwards.   *)
(* measured_fps is the exact fraction <<numerator, denominator>>.          *)
(***************************************************************************)
EXTENDS Integers, Sequences, FiniteSets, TLC

\* ------------------------------------------------------------------ bounds
MaxSeq == 3          \* reads are issued while the sequence counter is below
MaxClock == 2        \* largest clock value
MaxStep == 1         \* largest clock advance between two time.time() calls
MaxFails == 3        \* most consecutive open() failures the hardware shows
MainMaxClock == 120  \* largest clock value of a supervisor run
FactoryMaxSeq == 1   \* the bound on the sequence counter for the reads on a
                     \* device made by create_camera
WindowMaxSeq == 31   \* the bound on the sequence counter in a long run of
                     \* reads: one more than the timing window holds

\* ------------------------------------------------------- program constants
fps_window == 30
DefaultWidth == 640
DefaultHeight == 480
DefaultFps == 10
DefaultDeviceId == 0
retry_interval == 30
fps_report_interval == 10

\* how long one read() of the supervisor may take: no time, or a whole
\* report interval
ReadDurations == {0, fps_report_interval}

Backends == {"usb", "picamera"}

\* what the hardware may grant instead of the requested mode
GrantedModes == {<<DefaultWidth, DefaultHeight>>, <<320, 240>>}

\* the frame rate the hardware may report back after the request
GrantedRates == {DefaultFps, 30}

\* shapes of the arrays a backend capture call may hand back
Shapes == {<<480, 640, 3>>, <<480, 640>>, <<640>>}

\* ------------------------------------------------------------ Frame.create
NoFrame == <<>>

\* height, width = data.shape[:2]: unpacking fails below two dimensions
FrameCreateSwapped(shape, sequence) ==
    IF Len(shape) < 2
    THEN [raised |-> TRUE, frame |-> NoFrame]
    ELSE [raised |-> FALSE,
          frame  |-> <<[sequence |-> sequence,
                        width    |-> shape[1],
                        height   |-> shape[2],
                        shape    |-> shape]>>]

FrameCreate(shape, sequence) ==
    IF Len(shape) < 2
    THEN [raised |-> TRUE, frame |-> NoFrame]
    ELSE [raised |-> FALSE,
          frame  |-> <<[sequence |-> sequence,
                        width    |-> shape[2],
                        height   |-> shape[1],
                        shape    |-> shape]>>]

\* ---------------------------------------------------------- device helpers
\* PiCamera takes no device index
NoDeviceId == 0 - 1

\* USBCamera.__init__
USBCameraInitFirstDevice(device_id, width, height, fps_arg) ==
    [backend       |-> "usb",
     cap           |-> "none",
     device_id     |-> DefaultDeviceId,
     width         |-> width,
     height        |-> height,
     target_fps    |-> fps_arg,
     sequence      |-> 0,
     frame_times   |-> <<>>,
     measured_fps  |-> <<0, 1>>,
     actual_width  |-> width,
     actual_height |-> height]

USBCameraInit(device_id, width, height, fps_arg) ==
    [backend       |-> "usb",
     cap           |-> "none",
     device_id     |-> device_id,
     width         |-> width,
     height        |-> height,
     target_fps    |-> fps_arg,
     sequence      |-> 0,
     frame_times   |-> <<>>,
     measured_fps  |-> <<0, 1>>,
     actual_width  |-> width,
     actual_height |-> height]

\* PiCamera.__init__
PiCameraInit(width, height, fps_arg) ==
    [backend       |-> "picamera",
     cap           |-> "none",
     device_id     |-> NoDeviceId,
     width         |-> width,
     height        |-> height,
     target_fps    |-> fps_arg,
     sequence      |-> 0,
     frame_times   |-> <<>>,
     measured_fps  |-> <<0, 1>>,
     actual_width  |-> width,
     actual_height |-> height]

\* a device constructed with the default arguments
NewCamera(b) ==
    IF b = "usb"
    THEN USBCameraInit(DefaultDeviceId, DefaultWidth, DefaultHeight, DefaultFps)
    ELSE PiCameraInit(DefaultWidth, DefaultHeight, DefaultFps)

is_open_once(c) == c.cap # "none"

is_open(c) ==
    IF c.backend = "usb" THEN c.cap # "none" /\ c.cap = "live"
                         ELSE c.cap # "none"

resolution_requested(c) == <<c.width, c.height>>

resolution(c) ==
    IF c.backend = "usb" THEN <<c.actual_width, c.actual_height>>
                         ELSE <<c.width, c.height>>

fps(c) == c.measured_fps

target_fps(c) == c.target_fps

\* _cleanup: release (stop/close) inside try/except-pass, then drop the handle
CleanupLeaky(c, rel) ==
    IF c.cap # "none"
    THEN IF rel = "raise" THEN [cam |-> c, raised |-> TRUE]
                          ELSE [cam |-> [c EXCEPT !.cap = "none"], raised |-> FALSE]
    ELSE [cam |-> c, raised |-> FALSE]

Cleanup(c, rel) ==
    IF c.cap # "none"
    THEN [cam |-> [c EXCEPT !.cap = "none"], raised |-> FALSE]
    ELSE [cam |-> c, raised |-> FALSE]

Close(c, rel) == Cleanup(c, rel)

\* ------------------------------------------------------------------ open()
\* "Reset counters": sequence and the timing window, nothing else
ResetCountersKeepSequence(c) == [c EXCEPT !.frame_times = <<>>]

ResetCounters(c) == [c EXCEPT !.sequence = 0, !.frame_times = <<>>]

\* outcomes of the backend calls made by USBCamera.open, by the first call
\* that does not go well ("none": all of them go well)
USBOpenOutcomes ==
    {o \in [at      : {"ctor", "not_opened", "config", "get_height",
                       "test_raise", "test_fail", "none"},
            granted : GrantedModes,
            fps     : GrantedRates,
            rel     : {"ok", "raise"}] :
        /\ o.at \in {"not_opened", "none"} => o.rel = "ok"
        /\ o.at \in {"ctor", "not_opened", "config"}
              => o.granted = <<DefaultWidth, DefaultHeight>>
        /\ o.at # "none" => o.fps = DefaultFps}

USBOpenAdoptsFps(c, o) ==
    LET opened  == [c EXCEPT !.cap = "live"]
        gotW    == [opened EXCEPT !.actual_width = o.granted[1]]
        gotWH   == [gotW EXCEPT !.actual_height = o.granted[2]]
        failed(d) == [cam |-> Cleanup(d, o.rel).cam, ret |-> FALSE,
                      raised |-> Cleanup(d, o.rel).raised]
    IN  CASE o.at = "ctor"       -> failed(c)
          [] o.at = "not_opened" -> [cam |-> [c EXCEPT !.cap = "dead"],
                                     ret |-> FALSE, raised |-> FALSE]
          [] o.at = "config"     -> failed(opened)
          [] o.at = "get_height" -> failed(gotW)
          [] o.at = "test_raise" -> failed(gotWH)
          [] o.at = "test_fail"  -> failed(gotWH)
          [] OTHER               -> [cam |-> [ResetCounters(gotWH) EXCEPT
                                                 !.target_fps = o.fps],
                                     ret |-> TRUE, raised |-> FALSE]

USBOpen(c, o) ==
    LET opened  == [c EXCEPT !.cap = "live"]
        gotW    == [opened EXCEPT !.actual_width = o.granted[1]]
        gotWH   == [gotW EXCEPT !.actual_height = o.granted[2]]
        failed(d) == [cam |-> Cleanup(d, o.rel).cam, ret |-> FALSE,
                      raised |-> Cleanup(d, o.rel).raised]
    IN  CASE o.at = "ctor"       -> failed(c)
          [] o.at = "not_opened" -> [cam |-> [c EXCEPT !.cap = "dead"],
                                     ret |-> FALSE, raised |-> FALSE]
          [] o.at = "config"     -> failed(opened)
          [] o.at = "get_height" -> failed(gotW)
          [] o.at = "test_raise" -> failed(gotWH)
          [] o.at = "test_fail"  -> failed(gotWH)
          [] OTHER               -> [cam |-> ResetCounters(gotWH),
                                     ret |-> TRUE, raised |-> FALSE]

\* outcomes of the calls made by PiCamera.open; the import fails exactly
\* when the picamera2 driver is not installed
PiOpenOutcomes(installed) ==
    {o \in [at    : IF installed THEN {"ctor", "configure", "start", "none"}
                                 ELSE {"import"},
            focus : {"ok", "raise"},
            rel   : {"ok", "raise"}] :
        /\ o.at \in {"import", "none"} => o.rel = "ok"
        /\ o.at \in {"import", "ctor"} => o.focus = "ok"}

PiOpenFocusFatal(c, o) ==
    LET made == [c EXCEPT !.cap = "live"]
        failed(d) == [cam |-> Cleanup(d, o.rel).cam, ret |-> FALSE,
                      raised |-> Cleanup(d, o.rel).raised]
    IN  CASE o.at = "import"    -> [cam |-> c, ret |-> FALSE, raised |-> FALSE]
          [] o.at = "ctor"      -> failed(c)
          [] o.at = "configure" -> failed(made)
          [] o.at = "start"     -> failed(made)
          [] o.focus = "raise"  -> failed(made)
          [] OTHER              -> [cam |-> ResetCounters(made),
                                    ret |-> TRUE, raised |-> FALSE]

PiOpen(c, o) ==
    LET made == [c EXCEPT !.cap = "live"]
        failed(d) == [cam |-> Cleanup(d, o.rel).cam, ret |-> FALSE,
                      raised |-> Cleanup(d, o.rel).raised]
    IN  CASE o.at = "import"    -> [cam |-> c, ret |-> FALSE, raised |-> FALSE]
          [] o.at = "ctor"      -> failed(c)
          [] o.at = "configure" -> failed(made)
          [] o.at = "start"     -> failed(made)
          [] OTHER              -> [cam |-> ResetCounters(made),
                                    ret |-> TRUE, raised |-> FALSE]

\* ------------------------------------------------------------------ read()
\* frame_times.append(now), then keep the last fps_window entries
PushTimeKeepOldest(ft, now) ==
    LET a == Append(ft, now)
    IN  IF Len(a) > fps_window THEN SubSeq(a, 1, fps_window) ELSE a

PushTimeUntrimmed(ft, now) == Append(ft, now)

PushTime(ft, now) ==
    LET a == Append(ft, now)
    IN  IF Len(a) > fps_window
        THEN SubSeq(a, Len(a) - fps_window + 1, Len(a))
        ELSE a

\* measured_fps after the window became ft; old is the value held so far
CalcFpsByCount(ft, old) ==
    IF Len(ft) >= 2
    THEN LET elapsed == ft[Len(ft)] - ft[1]
         IN  IF elapsed > 0 THEN <<Len(ft), elapsed>> ELSE old
    ELSE old

CalcFps(ft, old) ==
    IF Len(ft) >= 2
    THEN LET elapsed == ft[Len(ft)] - ft[1]
         IN  IF elapsed > 0 THEN <<Len(ft) - 1, elapsed>> ELSE old
    ELSE old

\* the statements of read() between the capture call and Frame.create
TrackZeroesOnNoSpan(c, now) ==
    LET ft == PushTime(c.frame_times, now)
    IN  [c EXCEPT !.frame_times = ft,
                  !.measured_fps = IF Len(ft) >= 2 /\ ft[Len(ft)] = ft[1]
                                   THEN <<0, 1>>
                                   ELSE CalcFps(ft, c.measured_fps),
                  !.sequence = c.sequence + 1]

Track(c, now) ==
    LET ft == PushTime(c.frame_times, now)
    IN  [c EXCEPT !.frame_times = ft,
                  !.measured_fps = CalcFps(ft, c.measured_fps),
                  !.sequence = c.sequence + 1]

\* read() returns None
NoReadCloses(c, cap) == [cam |-> [c EXCEPT !.cap = "none"], frame |-> NoFrame,
                         raised |-> FALSE, captured |-> cap]

NoRead(c, cap) == [cam |-> c, frame |-> NoFrame, raised |-> FALSE,
                   captured |-> cap]

GoodShape == <<480, 640, 3>>

USBReadOutcomes ==
    {o \in [ret : {"raise", "false", "none", "array"}, shape : Shapes] :
        o.ret # "array" => o.shape = GoodShape}

USBReadUnguarded(c, o, now) ==
    IF o.ret # "array"
    THEN NoRead(c, TRUE)
    ELSE LET d == Track(c, now)
         IN  [cam |-> d, frame |-> FrameCreate(o.shape, d.sequence).frame,
              raised |-> FALSE, captured |-> TRUE]

USBRead(c, o, now) ==
    IF ~is_open(c)
    THEN NoRead(c, FALSE)
    ELSE IF o.ret # "array"
         THEN NoRead(c, TRUE)
         ELSE LET d == Track(c, now)
              IN  [cam |-> d, frame |-> FrameCreate(o.shape, d.sequence).frame,
                   raised |-> FALSE, captured |-> TRUE]

PiReadOutcomes ==
    {o \in [ret : {"raise", "none", "array"}, shape : Shapes] :
        o.ret # "array" => o.shape = GoodShape}

\* rgb_array[:, :, ::-1] needs three dimensions
PiRead(c, o, now) ==
    IF ~is_open(c)
    THEN NoRead(c, FALSE)
    ELSE IF o.ret # "array" \/ Len(o.shape) < 3
         THEN NoRead(c, TRUE)
         ELSE LET d == Track(c, now)
              IN  [cam |-> d, frame |-> FrameCreate(o.shape, d.sequence).frame,
                   raised |-> FALSE, captured |-> TRUE]

\* --------------------------------------------------------------- the state
VARIABLES
    cam,                 \* the device object
    picamera2_installed, \* whether "from picamera2 import Picamera2" works
    clock,               \* time.time()
    last,                \* the device call made last and what it returned
    delivered,           \* reads that returned a Frame since the last
                         \* open() that returned True
    stamps,              \* the capture times of those reads, oldest first
    pc,                  \* where main() stands
    running,             \* the flag cleared by signal_handler
    frame_count,
    last_fps_report,
    status,              \* what main() returned, NotReturned before
    signalled,           \* a SIGINT/SIGTERM was delivered
    fails,               \* open() calls of main() that failed in a row
    sleeps,              \* retry sleeps of main() since its last open() call
    tries,               \* open() calls, failed ones and sleeps of the retry
                         \* loop main() is in or was in last
    tally,               \* the Frames main() read since it last started to
                         \* count
    report,              \* the fps_report logged in the current pass of the
                         \* capture loop, if any
    factory              \* the create_camera() call that made the device

devvars == <<cam, picamera2_installed, clock, last, delivered, stamps,
             factory>>
mainvars == <<pc, running, frame_count, last_fps_report, status, signalled,
              fails, sleeps, tries, tally, report>>
vars == <<cam, picamera2_installed, clock, last, delivered, stamps, pc, running,
          frame_count, last_fps_report, status, signalled, fails, sleeps,
          tries, tally, report, factory>>

Call(op, prev, ok, raised, frame, captured, pre, granted) ==
    [op |-> op, prev |-> prev, ok |-> ok, raised |-> raised, frame |-> frame,
     captured |-> captured, pre |-> pre, granted |-> granted]

\* nothing was granted: the call was no open(), or open() returned False
NoGrant == <<>>

\* ---------------------------------------------------------- create_camera
\* the identifiers create_camera() is called with: the three it knows, and
\* two it does not
CameraTypes == {"auto", "picamera", "usb", "invalid_type", ""}

\* the keyword arguments: the defaults, and non-default values
DefaultArgs ==
    [width |-> DefaultWidth, height |-> DefaultHeight, fps |-> DefaultFps,
     device_id |-> DefaultDeviceId]

ArgSets ==
    {DefaultArgs, [width |-> 1280, height |-> 720, fps |-> 30, device_id |-> 2]}

\* how the probe of the "auto" branch goes: the import fails exactly when the
\* picamera2 driver is not installed, otherwise Picamera2() or close() may raise
ProbeOutcomes(installed) ==
    IF installed THEN {"ok", "ctor_raise", "close_raise"} ELSE {"import_error"}

\* no device object
NoDevice == <<>>

\* what create_camera raises, the device it returns, and what became of the
\* probe handle ("none": not constructed, "closed": close() returned,
\* "close_failed": close() raised, "open": constructed and not closed);
\* first the "auto" branch, then the whole function
AutoDetectKeepsProbe(a, probe) ==
    CASE probe = "ok"
           -> [raised |-> "none",
               camera |-> <<PiCameraInit(a.width, a.height, a.fps)>>,
               probe  |-> "open"]
      [] probe = "close_raise"
           -> [raised |-> "none",
               camera |-> <<USBCameraInit(a.device_id, a.width, a.height,
                                          a.fps)>>,
               probe  |-> "close_failed"]
      [] OTHER
           -> [raised |-> "none",
               camera |-> <<USBCameraInit(a.device_id, a.width, a.height,
                                          a.fps)>>,
               probe  |-> "none"]

AutoDetect(a, probe) ==
    CASE probe = "ok"
           -> [raised |-> "none",
               camera |-> <<PiCameraInit(a.width, a.height, a.fps)>>,
               probe  |-> "closed"]
      [] probe = "close_raise"
           -> [raised |-> "none",
               camera |-> <<USBCameraInit(a.device_id, a.width, a.height,
                                          a.fps)>>,
               probe  |-> "close_failed"]
      [] OTHER
           -> [raised |-> "none",
               camera |-> <<USBCameraInit(a.device_id, a.width, a.height,
                                          a.fps)>>,
               probe  |-> "none"]

create_camera_or_usb(camera_type, a, probe) ==
    CASE camera_type = "picamera"
           -> [raised |-> "none",
               camera |-> <<PiCameraInit(a.width, a.height, a.fps)>>,
               probe  |-> "none"]
      [] camera_type = "usb"
           -> [raised |-> "none",
               camera |-> <<USBCameraInit(a.device_id, a.width, a.height,
                                          a.fps)>>,
               probe  |-> "none"]
      [] camera_type = "auto" -> AutoDetect(a, probe)
      [] OTHER
           -> [raised |-> "none",
               camera |-> <<USBCameraInit(a.device_id, a.width, a.height,
                                          a.fps)>>,
               probe  |-> "none"]

create_camera(camera_type, a, probe) ==
    CASE camera_type = "picamera"
           -> [raised |-> "none",
               camera |-> <<PiCameraInit(a.width, a.height, a.fps)>>,
               probe  |-> "none"]
      [] camera_type = "usb"
           -> [raised |-> "none",
               camera |-> <<USBCameraInit(a.device_id, a.width, a.height,
                                          a.fps)>>,
               probe  |-> "none"]
      [] camera_type = "auto" -> AutoDetect(a, probe)
      [] OTHER
           -> [raised |-> "ValueError", camera |-> NoDevice, probe |-> "none"]

\* the record of a create_camera() call
FactoryCall(camera_type, a, outcome, r) ==
    [called |-> TRUE, camera_type |-> camera_type, args |-> a,
     outcome |-> outcome, raised |-> r.raised, made |-> r.camera # NoDevice,
     probe |-> r.probe]

\* the device was constructed directly, not by create_camera()
NoFactoryCall ==
    [called |-> FALSE, camera_type |-> "none", args |-> DefaultArgs,
     outcome |-> "none", raised |-> "none", made |-> FALSE, probe |-> "none"]

\* the place of the device before create_camera() has returned one
NoCamera == [NewCamera("usb") EXCEPT !.backend = "none"]

InitDevice ==
    /\ \E b \in Backends :
          /\ cam = NewCamera(b)
          /\ picamera2_installed \in (IF b = "picamera" THEN BOOLEAN ELSE {FALSE})
          /\ last = Call("new", "new", FALSE, FALSE, NoFrame, FALSE, NewCamera(b),
                      NoGrant)
    /\ clock = 0
    /\ delivered = 0
    /\ stamps = <<>>
    /\ factory = NoFactoryCall

OpenOutcomes ==
    IF cam.backend = "usb" THEN USBOpenOutcomes
                           ELSE PiOpenOutcomes(picamera2_installed)

DevOpen(c, o) == IF c.backend = "usb" THEN USBOpen(c, o) ELSE PiOpen(c, o)

\* the mode and the frame rate the hardware reports back in open()
GrantedMode(c, o) ==
    IF c.backend = "usb" THEN o.granted ELSE <<c.width, c.height>>

GrantedFps(c, o) == IF c.backend = "usb" THEN o.fps ELSE c.target_fps

\* how set_controls() for the manual focus went; USBCamera sets no focus
FocusOutcome(c, o) == IF c.backend = "usb" THEN "none" ELSE o.focus

ReadOutcomes == IF cam.backend = "usb" THEN USBReadOutcomes ELSE PiReadOutcomes

DevRead(c, o, now) ==
    IF c.backend = "usb" THEN USBRead(c, o, now) ELSE PiRead(c, o, now)

\* the effect of one camera.open() on the device and on the call record
DoOpen(o) ==
    LET r == DevOpen(cam, o)
    IN  /\ cam' = r.cam
        /\ last' = Call("open", last.op, r.ret, r.raised, NoFrame, FALSE, cam,
                        IF r.ret THEN <<[mode  |-> GrantedMode(cam, o),
                                         fps   |-> GrantedFps(cam, o),
                                         focus |-> FocusOutcome(cam, o)]>>
                                 ELSE NoGrant)
        /\ delivered' = IF r.ret THEN 0 ELSE delivered
        /\ stamps' = IF r.ret THEN <<>> ELSE stamps

\* the effect of one camera.read() at time now
DoRead(o, now) ==
    LET r == DevRead(cam, o, now)
    IN  /\ cam' = r.cam
        /\ last' = Call("read", last.op, r.frame # NoFrame, r.raised, r.frame,
                        r.captured, cam, NoGrant)
        /\ delivered' = IF r.frame # NoFrame THEN delivered + 1 ELSE delivered
        /\ stamps' = IF r.frame # NoFrame THEN Append(stamps, now) ELSE stamps

\* the effect of one camera.close()
DoClose(rel) ==
    LET r == Close(cam, rel)
    IN  /\ cam' = r.cam
        /\ last' = Call("close", last.op, TRUE, r.raised, NoFrame, FALSE, cam,
                        NoGrant)
        /\ UNCHANGED <<delivered, stamps>>

\* ------------------------------------------- the device under any caller
\* camera.open()
Open ==
    /\ \E o \in OpenOutcomes : DoOpen(o)
    /\ UNCHANGED <<picamera2_installed, factory, clock>>
    /\ UNCHANGED mainvars

\* camera.read(); the clock may have advanced since the call before
Read ==
    /\ cam.sequence < MaxSeq
    /\ \E o \in ReadOutcomes, d \in 0 .. MaxStep :
          /\ clock + d <= MaxClock
          /\ DoRead(o, clock + d)
          /\ clock' = clock + d
    /\ UNCHANGED <<picamera2_installed, factory>>
    /\ UNCHANGED mainvars

\* camera.close()
CloseCall ==
    /\ \E rel \in {"ok", "raise"} : DoClose(rel)
    /\ UNCHANGED <<picamera2_installed, factory, clock>>
    /\ UNCHANGED mainvars

\* the capture device behind a VideoCapture goes away: isOpened() turns False
DeviceLost ==
    /\ cam.backend = "usb"
    /\ cam.cap = "live"
    /\ cam' = [cam EXCEPT !.cap = "dead"]
    /\ UNCHANGED <<picamera2_installed, factory, clock, last, delivered, stamps>>
    /\ UNCHANGED mainvars

NotReturned == 0 - 1

\* a retry loop that has made no call yet
NoTries == [opens |-> 0, failures |-> 0, sleeps |-> 0]

\* reads: the reads that returned a Frame since the latest of the loop start,
\* the last fps_report and the last open() that returned True
NoTally == [reads |-> 0]

NoReport == <<>>

\* frame_count += 1 and the periodic FPS reporting: the new counter, the new
\* interval start and the report that was logged
CountFrameThenIncrement(count, start, now) ==
    IF now - start >= fps_report_interval
    THEN [frame_count |-> 0, last_fps_report |-> now,
          report |-> <<[frames |-> count, elapsed |-> now - start]>>]
    ELSE [frame_count |-> count + 1, last_fps_report |-> start,
          report |-> NoReport]

CountFrame(count, start, now) ==
    IF now - start >= fps_report_interval
    THEN [frame_count |-> 0, last_fps_report |-> now,
          report |-> <<[frames |-> count + 1, elapsed |-> now - start]>>]
    ELSE [frame_count |-> count + 1, last_fps_report |-> start,
          report |-> NoReport]

\* the tally after an open() call and after a read() call of main()
TallyOpen(ret) == [reads |-> IF ret THEN 0 ELSE tally.reads]

TallyRead(got, reported) ==
    [reads |-> IF ~got THEN tally.reads
               ELSE IF reported THEN 0 ELSE tally.reads + 1]

InitSupervisor(start) ==
    /\ pc = start
    /\ running = TRUE
    /\ frame_count = 0
    /\ last_fps_report = 0
    /\ status = NotReturned
    /\ signalled = FALSE
    /\ fails = 0
    /\ sleeps = 0
    /\ tries = NoTries
    /\ tally = NoTally
    /\ report = NoReport

Init == InitDevice /\ InitSupervisor("unstarted")

Next == Open \/ Read \/ CloseCall \/ DeviceLost

Spec == Init /\ [][Next]_vars

\* ------------------------------------ the device over a long run of reads
\* camera.read() in a run long enough for the timing window to fill up; the
\* reads follow each other so closely that time.time() returns one value
WindowRead ==
    /\ cam.sequence < WindowMaxSeq
    /\ \E o \in ReadOutcomes : DoRead(o, clock)
    /\ UNCHANGED <<picamera2_installed, factory, clock>>
    /\ UNCHANGED mainvars

WindowNext == Open \/ WindowRead \/ CloseCall \/ DeviceLost

SpecWindow == Init /\ [][WindowNext]_vars

\* --------------------------------------- the device made by create_camera
\* camera = create_camera(settings.camera.type, ...), called once; an
\* exception it raises leaves main()
CreateCamera ==
    /\ ~factory.called
    /\ \E t \in CameraTypes, a \in ArgSets,
          p \in ProbeOutcomes(picamera2_installed) :
          LET r == create_camera(t, a, p)
              o == IF t = "auto" THEN p ELSE "none"
          IN  /\ factory' = FactoryCall(t, a, o, r)
              /\ cam' = IF r.camera # NoDevice THEN r.camera[1] ELSE cam
              /\ last' = IF r.camera # NoDevice
                         THEN Call("new", "new", FALSE, FALSE, NoFrame, FALSE,
                                   r.camera[1], NoGrant)
                         ELSE last
    /\ UNCHANGED <<picamera2_installed, clock, delivered, stamps>>
    /\ UNCHANGED mainvars

\* the calls made on the returned device
UseCamera ==
    /\ factory.made
    /\ \/ Open
       \/ cam.sequence < FactoryMaxSeq /\ Read
       \/ CloseCall
       \/ DeviceLost

FactoryInit ==
    /\ cam = NoCamera
    /\ picamera2_installed \in BOOLEAN
    /\ last = Call("none", "none", FALSE, FALSE, NoFrame, FALSE, NoCamera,
                   NoGrant)
    /\ clock = 0
    /\ delivered = 0
    /\ stamps = <<>>
    /\ factory = NoFactoryCall
    /\ InitSupervisor("unstarted")

FactoryNext == CreateCamera \/ UseCamera

SpecFactory == FactoryInit /\ [][FactoryNext]_vars

\* ------------------------------------------------------------------ main()
\* the positions at which main() is inside one of its two open-retry loops
ConnectingPcs == {"connect", "startup_sleep", "recheck", "reopen", "resleep"}

\* the positions before signal.signal() has installed signal_handler
NoHandlerPcs == {"connect", "startup_sleep", "install"}

\* the positions at which signal_handler is installed and main() still runs
HandlerPcs == {"loop", "read", "process", "reclose", "recheck", "reopen",
               "resleep", "after_reconnect", "finally"}

\* while not camera.open(): one evaluation of the loop condition
StartupOpenNoSleep ==
    /\ pc = "connect"
    /\ \E o \in OpenOutcomes :
          /\ DevOpen(cam, o).ret \/ fails < MaxFails
          /\ DoOpen(o)
          /\ pc' = IF DevOpen(cam, o).ret THEN "install" ELSE "connect"
          /\ fails' = IF DevOpen(cam, o).ret THEN 0 ELSE fails + 1
          /\ tally' = TallyOpen(DevOpen(cam, o).ret)
          /\ tries' = [tries EXCEPT
                          !.opens = @ + 1,
                          !.failures = IF DevOpen(cam, o).ret THEN @
                                                             ELSE @ + 1]
    /\ sleeps' = 0
    /\ UNCHANGED <<picamera2_installed, factory, clock, running, frame_count,
                   last_fps_report, status, signalled>>
    /\ UNCHANGED report

StartupOpen ==
    /\ pc = "connect"
    /\ \E o \in OpenOutcomes :
          /\ DevOpen(cam, o).ret \/ fails < MaxFails
          /\ DoOpen(o)
          /\ pc' = IF DevOpen(cam, o).ret THEN "install" ELSE "startup_sleep"
          /\ fails' = IF DevOpen(cam, o).ret THEN 0 ELSE fails + 1
          /\ tally' = TallyOpen(DevOpen(cam, o).ret)
          /\ tries' = [tries EXCEPT
                          !.opens = @ + 1,
                          !.failures = IF DevOpen(cam, o).ret THEN @
                                                             ELSE @ + 1]
    /\ sleeps' = 0
    /\ UNCHANGED <<picamera2_installed, factory, clock, running, frame_count,
                   last_fps_report, status, signalled>>
    /\ UNCHANGED report

\* time.sleep(retry_interval) in the startup loop
StartupSleep ==
    /\ pc = "startup_sleep"
    /\ clock + retry_interval <= MainMaxClock
    /\ clock' = clock + retry_interval
    /\ sleeps' = sleeps + 1
    /\ tries' = [tries EXCEPT !.sleeps = @ + 1]
    /\ pc' = "connect"
    /\ UNCHANGED <<cam, picamera2_installed, factory, last, delivered, stamps, running,
                   frame_count, last_fps_report, status, signalled, fails>>
    /\ UNCHANGED <<tally, report>>

\* running = True, the two signal.signal() calls, the statistics
Install ==
    /\ pc = "install"
    /\ running' = TRUE
    /\ frame_count' = 0
    /\ last_fps_report' = clock
    /\ pc' = "loop"
    /\ UNCHANGED <<devvars, status, signalled, fails, sleeps>>
    /\ UNCHANGED tries
    /\ UNCHANGED <<tally, report>>

\* while running:
LoopTop ==
    /\ pc = "loop"
    /\ pc' = IF running THEN "read" ELSE "finally"
    /\ UNCHANGED <<devvars, running, frame_count, last_fps_report, status,
                   signalled, fails, sleeps>>
    /\ UNCHANGED tries
    /\ UNCHANGED <<tally, report>>

\* frame = camera.read() and, for a Frame, the counting and the FPS report
MainReadGivesUp ==
    /\ pc = "read"
    /\ cam.sequence < MaxSeq
    /\ \E o \in ReadOutcomes, d \in ReadDurations :
          LET now == clock + d
              got == DevRead(cam, o, now).frame # NoFrame
              st  == CountFrame(frame_count, last_fps_report, now)
          IN  /\ now <= MainMaxClock
              /\ DoRead(o, now)
              /\ clock' = now
              /\ pc' = IF got THEN "process" ELSE "finally"
              /\ frame_count' = IF got THEN st.frame_count ELSE frame_count
              /\ last_fps_report' = IF got THEN st.last_fps_report
                                           ELSE last_fps_report
              /\ report' = IF got THEN st.report ELSE NoReport
              /\ tally' = TallyRead(got, got /\ st.report # NoReport)
    /\ UNCHANGED <<picamera2_installed, factory, running, status, signalled, fails,
                   sleeps>>
    /\ UNCHANGED tries

MainRead ==
    /\ pc = "read"
    /\ cam.sequence < MaxSeq
    /\ \E o \in ReadOutcomes, d \in ReadDurations :
          LET now == clock + d
              got == DevRead(cam, o, now).frame # NoFrame
              st  == CountFrame(frame_count, last_fps_report, now)
          IN  /\ now <= MainMaxClock
              /\ DoRead(o, now)
              /\ clock' = now
              /\ pc' = IF got THEN "process" ELSE "reclose"
              /\ frame_count' = IF got THEN st.frame_count ELSE frame_count
              /\ last_fps_report' = IF got THEN st.last_fps_report
                                           ELSE last_fps_report
              /\ report' = IF got THEN st.report ELSE NoReport
              /\ tally' = TallyRead(got, got /\ st.report # NoReport)
    /\ UNCHANGED <<picamera2_installed, factory, running, status, signalled, fails,
                   sleeps>>
    /\ UNCHANGED tries

\* the downstream stages that are still to come return
ProcessFrame ==
    /\ pc = "process"
    /\ pc' = "loop"
    /\ UNCHANGED <<devvars, running, frame_count, last_fps_report, status,
                   signalled, fails, sleeps>>
    /\ UNCHANGED tries
    /\ report' = NoReport
    /\ UNCHANGED tally

\* they raise: except Exception: return 1, with camera.close() in finally
UnexpectedErrorReturnsZero ==
    /\ pc = "process"
    /\ \E rel \in {"ok", "raise"} : DoClose(rel)
    /\ status' = 0
    /\ pc' = "exit"
    /\ UNCHANGED <<picamera2_installed, factory, clock, running, frame_count,
                   last_fps_report, signalled, fails, sleeps>>
    /\ UNCHANGED tries
    /\ UNCHANGED <<tally, report>>

UnexpectedError ==
    /\ pc = "process"
    /\ \E rel \in {"ok", "raise"} : DoClose(rel)
    /\ status' = 1
    /\ pc' = "exit"
    /\ UNCHANGED <<picamera2_installed, factory, clock, running, frame_count,
                   last_fps_report, signalled, fails, sleeps>>
    /\ UNCHANGED tries
    /\ UNCHANGED <<tally, report>>

\* camera.close(); reconnect_start = time.time()
ReconnectCloseGivesUp ==
    /\ pc = "reclose"
    /\ \E rel \in {"ok", "raise"} : DoClose(rel)
    /\ fails' = 0
    /\ sleeps' = 0
    /\ tries' = NoTries
    /\ pc' = "finally"
    /\ UNCHANGED <<picamera2_installed, factory, clock, running, frame_count,
                   last_fps_report, status, signalled>>
    /\ UNCHANGED <<tally, report>>

ReconnectClose ==
    /\ pc = "reclose"
    /\ \E rel \in {"ok", "raise"} : DoClose(rel)
    /\ fails' = 0
    /\ sleeps' = 0
    /\ tries' = NoTries
    /\ pc' = "recheck"
    /\ UNCHANGED <<picamera2_installed, factory, clock, running, frame_count,
                   last_fps_report, status, signalled>>
    /\ UNCHANGED <<tally, report>>

\* while running and ...: the left operand
ReconnectCheckIgnoresFlag ==
    /\ pc = "recheck"
    /\ pc' = "reopen"
    /\ UNCHANGED <<devvars, running, frame_count, last_fps_report, status,
                   signalled, fails, sleeps>>
    /\ UNCHANGED tries
    /\ UNCHANGED <<tally, report>>

ReconnectCheck ==
    /\ pc = "recheck"
    /\ pc' = IF running THEN "reopen" ELSE "after_reconnect"
    /\ UNCHANGED <<devvars, running, frame_count, last_fps_report, status,
                   signalled, fails, sleeps>>
    /\ UNCHANGED tries
    /\ UNCHANGED <<tally, report>>

\* ... and not camera.open(): the right operand
ReconnectOpenGivesUp ==
    /\ pc = "reopen"
    /\ \E o \in OpenOutcomes :
          /\ DevOpen(cam, o).ret \/ fails < MaxFails
          /\ DoOpen(o)
          /\ pc' = IF DevOpen(cam, o).ret THEN "after_reconnect"
                   ELSE IF fails >= 1 THEN "finally" ELSE "resleep"
          /\ fails' = IF DevOpen(cam, o).ret THEN 0 ELSE fails + 1
          /\ tally' = TallyOpen(DevOpen(cam, o).ret)
          /\ tries' = [tries EXCEPT
                          !.opens = @ + 1,
                          !.failures = IF DevOpen(cam, o).ret THEN @
                                                             ELSE @ + 1]
    /\ sleeps' = 0
    /\ UNCHANGED <<picamera2_installed, factory, clock, running, frame_count,
                   last_fps_report, status, signalled>>
    /\ UNCHANGED report

ReconnectOpen ==
    /\ pc = "reopen"
    /\ \E o \in OpenOutcomes :
          /\ DevOpen(cam, o).ret \/ fails < MaxFails
          /\ DoOpen(o)
          /\ pc' = IF DevOpen(cam, o).ret THEN "after_reconnect" ELSE "resleep"
          /\ fails' = IF DevOpen(cam, o).ret THEN 0 ELSE fails + 1
          /\ tally' = TallyOpen(DevOpen(cam, o).ret)
          /\ tries' = [tries EXCEPT
                          !.opens = @ + 1,
                          !.failures = IF DevOpen(cam, o).ret THEN @
                                                             ELSE @ + 1]
    /\ sleeps' = 0
    /\ UNCHANGED <<picamera2_installed, factory, clock, running, frame_count,
                   last_fps_report, status, signalled>>
    /\ UNCHANGED report

\* time.sleep(retry_interval) in the reconnect loop
ReconnectSleepOnce ==
    /\ pc = "resleep"
    /\ clock + retry_interval <= MainMaxClock
    /\ clock' = clock + retry_interval
    /\ sleeps' = sleeps + 1
    /\ tries' = [tries EXCEPT !.sleeps = @ + 1]
    /\ pc' = "after_reconnect"
    /\ UNCHANGED <<cam, picamera2_installed, factory, last, delivered, stamps, running,
                   frame_count, last_fps_report, status, signalled, fails>>
    /\ UNCHANGED <<tally, report>>

ReconnectSleep ==
    /\ pc = "resleep"
    /\ clock + retry_interval <= MainMaxClock
    /\ clock' = clock + retry_interval
    /\ sleeps' = sleeps + 1
    /\ tries' = [tries EXCEPT !.sleeps = @ + 1]
    /\ pc' = "recheck"
    /\ UNCHANGED <<cam, picamera2_installed, factory, last, delivered, stamps, running,
                   frame_count, last_fps_report, status, signalled, fails>>
    /\ UNCHANGED <<tally, report>>

\* if running: frame_count = 0; last_fps_report = time.time(); continue
AfterReconnectKeepsStats ==
    /\ pc = "after_reconnect"
    /\ frame_count' = frame_count
    /\ last_fps_report' = last_fps_report
    /\ pc' = "loop"
    /\ UNCHANGED <<devvars, running, status, signalled, fails, sleeps>>
    /\ UNCHANGED tries
    /\ UNCHANGED <<tally, report>>

AfterReconnect ==
    /\ pc = "after_reconnect"
    /\ frame_count' = IF running THEN 0 ELSE frame_count
    /\ last_fps_report' = IF running THEN clock ELSE last_fps_report
    /\ pc' = "loop"
    /\ UNCHANGED <<devvars, running, status, signalled, fails, sleeps>>
    /\ UNCHANGED tries
    /\ UNCHANGED <<tally, report>>

\* finally: camera.close(); return 0
FinallySkipsClose ==
    /\ pc = "finally"
    /\ UNCHANGED <<cam, last, delivered, stamps>>
    /\ status' = 0
    /\ pc' = "exit"
    /\ UNCHANGED <<picamera2_installed, factory, clock, running, frame_count,
                   last_fps_report, signalled, fails, sleeps>>
    /\ UNCHANGED tries
    /\ UNCHANGED <<tally, report>>

Finally ==
    /\ pc = "finally"
    /\ \E rel \in {"ok", "raise"} : DoClose(rel)
    /\ status' = 0
    /\ pc' = "exit"
    /\ UNCHANGED <<picamera2_installed, factory, clock, running, frame_count,
                   last_fps_report, signalled, fails, sleeps>>
    /\ UNCHANGED tries
    /\ UNCHANGED <<tally, report>>

\* SIGINT or SIGTERM once signal_handler is installed: running = False
SignalHandled ==
    /\ pc \in HandlerPcs
    /\ running' = FALSE
    /\ signalled' = TRUE
    /\ UNCHANGED <<devvars, pc, frame_count, last_fps_report, status, fails,
                   sleeps>>
    /\ UNCHANGED tries
    /\ UNCHANGED <<tally, report>>

\* SIGINT or SIGTERM before that: the interpreter's default disposition ends
\* the process (KeyboardInterrupt, or termination), main() does not return
SignalDefault ==
    /\ pc \in NoHandlerPcs
    /\ pc' = "killed"
    /\ signalled' = TRUE
    /\ UNCHANGED <<devvars, running, frame_count, last_fps_report, status,
                   fails, sleeps>>
    /\ UNCHANGED tries
    /\ UNCHANGED <<tally, report>>

MainInit == InitDevice /\ InitSupervisor("connect")

MainNext ==
    \/ StartupOpen \/ StartupSleep \/ Install \/ LoopTop \/ MainRead
    \/ ProcessFrame \/ UnexpectedError \/ ReconnectClose \/ ReconnectCheck
    \/ ReconnectOpen \/ ReconnectSleep \/ AfterReconnect \/ Finally
    \/ SignalHandled \/ SignalDefault \/ DeviceLost

SpecMain == MainInit /\ [][MainNext]_vars

\* ------------------------------------- main() left alone by its environment
\* no SIGINT or SIGTERM arrives and the downstream stages never raise: the
\* flag stays True, so neither the loop exit nor the finally block is reached
LiveNext ==
    \/ StartupOpen \/ StartupSleep \/ Install \/ LoopTop \/ MainRead
    \/ ProcessFrame \/ ReconnectClose \/ ReconnectCheck \/ ReconnectOpen
    \/ ReconnectSleep \/ AfterReconnect \/ DeviceLost

\* the steps of main() itself; DeviceLost is the hardware's
LiveSteps ==
    \/ StartupOpen \/ StartupSleep \/ Install \/ LoopTop \/ MainRead
    \/ ProcessFrame \/ ReconnectClose \/ ReconnectCheck \/ ReconnectOpen
    \/ ReconnectSleep \/ AfterReconnect

\* execution is sequential and every call returns: the one statement main()
\* is at is eventually executed. That open() does not fail forever is the
\* MaxFails guard of StartupOpen and ReconnectOpen.
LiveFairness == WF_vars(LiveSteps)

SpecLive == MainInit /\ [][LiveNext]_vars /\ LiveFairness

\* ------------------------------------------------------- the device claims
Min(a, b) == IF a < b THEN a ELSE b

LastN(q, n) == SubSeq(q, Len(q) - n + 1, Len(q))

Span(ft) == ft[Len(ft)] - ft[1]

\* C1: every read() that returns a Frame returns one whose sequence is the
\* number of reads that returned a Frame since the last successful open(),
\* whatever reads that returned none came in between.
C1_SequenceCountsFrames ==
    (last.op = "read" /\ last.ok) => last.frame[1].sequence = delivered

\* C2: read() on a device that is not open returns none, does not raise,
\* makes no backend capture call and leaves the sequence counter, the timing
\* window and the measured rate as they were.
C2_ReadWhenClosed ==
    (last.op = "read" /\ ~is_open(last.pre))
        => /\ ~last.ok /\ last.frame = NoFrame
           /\ ~last.raised
           /\ ~last.captured
           /\ cam.sequence = last.pre.sequence
           /\ cam.frame_times = last.pre.frame_times
           /\ cam.measured_fps = last.pre.measured_fps

\* a read on a device that was closed after an epoch in which frames were read
C2_Witness ==
    /\ last.op = "read" /\ last.prev = "close"
    /\ ~is_open(last.pre)
    /\ last.pre.sequence > 0

\* C3: close() never raises and leaves the device closed with no handle held,
\* from any state; a close() that follows a close() changes nothing.
C3_CloseIdempotent ==
    last.op = "close"
        => /\ ~last.raised
           /\ cam.cap = "none"
           /\ ~is_open(cam)
           /\ (last.prev = "close" => cam = last.pre)
           /\ (last.pre.cap = "none" => cam = last.pre)

\* a second close() in a row, after an epoch in which frames were read
C3_Witness ==
    /\ last.op = "close" /\ last.prev = "close"
    /\ cam.sequence > 0

\* C4: open() never raises, and after an open() that returned false the
\* device holds no backend handle.
C4_FailedOpenHoldsNothing ==
    last.op = "open" => (~last.raised /\ (~last.ok => cam.cap = "none"))

\* C5 as stated: every open() call leaves the sequence counter at 0.
C5_ResetOnEveryOpen ==
    last.op = "open" => cam.sequence = 0

\* C5 as amended: an open() that returns true leaves the sequence counter at
\* 0 whatever it was before, an open() that returns false leaves it as it
\* was, and a read() made right after an open() that returns a Frame returns
\* sequence 1.
C5_ResetOnSuccessfulOpen ==
    /\ (last.op = "open" /\ last.ok) => (cam.sequence = 0 /\ delivered = 0)
    /\ (last.op = "open" /\ ~last.ok) => cam.sequence = last.pre.sequence
    /\ (last.op = "read" /\ last.prev = "open" /\ last.ok)
          => last.frame[1].sequence = 1

\* open() succeeded on a device closed after an epoch in which frames were read
C5_Witness ==
    /\ last.op = "open" /\ last.ok /\ last.prev = "close"
    /\ last.pre.sequence > 0

\* C6: measured_fps is 0 whenever the window holds fewer than two timestamps.
C6_FpsZeroBelowTwoSamples ==
    Len(cam.frame_times) < 2 => cam.measured_fps[1] = 0

\* C7: the window never holds more than fps_window timestamps and is exactly
\* the most recent min(n, fps_window) capture times of the n reads that
\* returned a Frame in this epoch, in capture order.
C7_WindowIsRecentReads ==
    /\ Len(cam.frame_times) <= fps_window
    /\ cam.frame_times = LastN(stamps, Min(Len(stamps), fps_window))

\* C8: after a read that returned a Frame and left N >= 2 timestamps with a
\* positive span, measured_fps * (newest - oldest) = N - 1.
C8_FpsFormula ==
    (/\ last.op = "read" /\ last.ok
     /\ Len(cam.frame_times) >= 2
     /\ Span(cam.frame_times) > 0)
        => /\ cam.measured_fps[2] > 0
           /\ cam.measured_fps[1] * Span(cam.frame_times)
                 = (Len(cam.frame_times) - 1) * cam.measured_fps[2]

\* three timestamps over a span of one: measured_fps is 2
C8_Witness ==
    /\ last.op = "read" /\ last.ok
    /\ Len(cam.frame_times) = 3
    /\ Span(cam.frame_times) = 1

\* --------------------------------------------------- the supervisor claims
\* C9: in Connecting, at startup and after a read failure, main() calls
\* open() again and again with one sleep of retry_interval between two
\* attempts; it leaves Connecting only when an open() returned true or when
\* cancellation ended the wait (the flag cleared by signal_handler, or, before
\* the handler is installed, the signal itself); failures never end it.
C9_RetriesWithoutLimit ==
    /\ []((pc \in {"connect", "reopen"} /\ fails > 0) => sleeps = 1)
    /\ [][/\ (pc \in {"startup_sleep", "resleep"} /\ pc' \in ConnectingPcs
                 /\ pc' # pc)
              => clock' = clock + retry_interval
          /\ (pc \in ConnectingPcs /\ pc' \notin ConnectingPcs)
              => \/ pc \in {"connect", "reopen"} /\ last'.op = "open" /\ last'.ok
                 \/ ~running'
                 \/ signalled' /\ pc' = "killed"]_vars

\* about to call open() again in the reconnect loop after MaxFails failures
C9_Witness ==
    /\ pc = "reopen"
    /\ fails = MaxFails
    /\ sleeps = 1

\* C10: once a cancellation signal was delivered and main() has ended without
\* an unexpected error, it has returned 0 and the device is closed, in the
\* startup connect loop as in the reconnect loop and the capture loop.
C10_CancellationExitsCleanly ==
    (signalled /\ pc \in {"exit", "killed"} /\ status # 1)
        => (pc = "exit" /\ status = 0 /\ cam.cap = "none")

\* C11: a read() that returns None in the capture loop sends main() to the
\* reconnect branch: camera.close() is the next device call and leaves the
\* device closed, open() is called only after it, the retry loop runs while
\* the flag is set, and nothing in that branch ends main() or sets a status.
C11_ReadFailureReconnects ==
    [][/\ (pc = "read" /\ pc' # pc /\ last'.op = "read" /\ ~last'.ok)
              => pc' = "reclose"
       /\ (pc = "reclose" /\ pc' # pc)
              => (pc' = "recheck" /\ last'.op = "close" /\ ~is_open(cam'))
       /\ (pc = "recheck" /\ pc' # pc /\ running) => pc' = "reopen"
       /\ (pc = "reopen" /\ pc' # pc)
              => (last.op \in {"close", "open"} /\ last'.op = "open")
       /\ (pc = "resleep" /\ pc' # pc) => pc' = "recheck"
       /\ (pc \in {"reclose", "recheck", "reopen", "resleep"})
              => (pc' \notin {"finally", "exit", "killed"}
                  /\ status' = status)]_vars

\* frames were read, a read() returned None, close() was called, and main()
\* is about to call open() again
C11_Witness ==
    /\ pc = "reopen"
    /\ last.op = "close" /\ last.prev = "read"
    /\ last.pre.sequence > 0
    /\ running

\* C13: main() returns 1 exactly when the code that follows a read Frame in
\* the capture loop raised, and that exception always gives 1; every other
\* return of main() is 0: after a cancellation, and whatever open() calls
\* returned False and read() calls returned None before.
C13_OnlyUnexpectedErrorFails ==
    /\ [](pc = "exit" <=> status \in {0, 1})
    /\ [][/\ (pc = "process" /\ pc' = "exit") => status' = 1
          /\ (status' = 1 /\ status # 1)
                => (pc = "process" /\ last.op = "read" /\ last.ok)
          /\ (pc # "process" /\ pc' = "exit" /\ pc # "exit")
                => (pc = "finally" /\ status' = 0)]_vars

\* main() has returned 1 with no signal delivered
C13_Witness ==
    /\ pc = "exit"
    /\ status = 1
    /\ ~signalled

\* C12: without a signal, a retry loop that main() has left made one more
\* open() call than calls that failed and slept once per failed call: k
\* failures give k + 1 calls, one sleep of retry_interval between two calls
\* and none after the call that returned True; inside the loop every failed
\* call is followed by exactly one sleep before the next call.  The first
\* Frame read after the loop has sequence 1.
C12_RetryThenFirstFrame ==
    /\ (~signalled /\ pc \notin ConnectingPcs)
          => (tries.opens = tries.failures + 1 /\ tries.sleeps = tries.failures)
    /\ pc \in {"connect", "reopen"}
          => (tries.opens = tries.failures /\ tries.sleeps = tries.failures)
    /\ pc \in {"startup_sleep", "resleep"}
          => (tries.opens = tries.failures /\ tries.sleeps + 1 = tries.failures)
    /\ (last.op = "read" /\ last.ok /\ delivered = 1)
          => last.frame[1].sequence = 1

\* open() failed three times at startup and then returned True; the first
\* Frame has just been read
C12_Witness ==
    /\ ~signalled
    /\ pc = "process"
    /\ tries = [opens |-> 4, failures |-> 3, sleeps |-> 3]
    /\ clock >= 3 * retry_interval
    /\ last.op = "read" /\ last.ok /\ delivered = 1
    /\ last.frame[1].sequence = 1

\* ------------------------------------------------ handles and properties
\* C14: the device holds at most one live backend handle: an open() call that
\* leaves the device with a newly acquired live handle starts from a device
\* whose earlier handle has been released, under any sequence of calls.
C14_ReleaseBeforeAcquire ==
    [][(last'.op = "open" /\ last' # last /\ cam'.cap = "live")
          => cam.cap # "live"]_vars

\* C15: is_open() is true exactly when the device holds a live handle: false
\* after construction, after an open() that returned False and after
\* close(), true when open() has just returned True, and on USBCamera false
\* from the moment the held VideoCapture stops reporting isOpened().
C15_IsOpenIffLiveHandle ==
    /\ [](is_open(cam) <=> cam.cap = "live")
    /\ [](last.op = "new" => ~is_open(cam))
    /\ []((last.op = "open" /\ ~last.ok) => ~is_open(cam))
    /\ [](last.op = "close" => ~is_open(cam))
    /\ [][(last'.op = "open" /\ last' # last /\ last'.ok)
              => is_open(cam')]_vars
    /\ [][(cam.backend = "usb" /\ cam.cap = "live" /\ cam'.cap = "dead"
               /\ last' = last)
              => (is_open(cam) /\ ~is_open(cam'))]_vars

\* open() returned True on a USBCamera and the capture device went away
C15_Witness ==
    /\ cam.backend = "usb"
    /\ last.op = "open" /\ last.ok
    /\ cam.cap = "dead"
    /\ ~is_open(cam)

\* ------------------------------------------------------ the factory claims
\* C16: create_camera() called with a type other than "auto", "picamera" and
\* "usb" raises ValueError: no device object exists afterwards, no probe
\* handle was constructed, and nothing follows the call (no second call);
\* the three known types never raise.
C16_UnknownTypeRaises ==
    /\ []((factory.called
            /\ factory.camera_type \notin {"auto", "picamera", "usb"})
           => /\ factory.raised = "ValueError"
              /\ ~factory.made
              /\ factory.probe = "none"
              /\ cam = NoCamera)
    /\ []((factory.called
            /\ factory.camera_type \in {"auto", "picamera", "usb"})
           => factory.raised = "none")
    /\ [][factory.raised # "ValueError"]_vars

\* the call of test_create_camera_unknown_type_raises
C16_Witness ==
    /\ factory.called
    /\ factory.camera_type = "invalid_type"
    /\ factory.raised = "ValueError"

\* C17: create_camera("auto") never raises and returns one device: a PiCamera
\* when the probe went through (Picamera2 imported, constructed and closed),
\* a USBCamera when the import, the constructor or close() failed; a probe
\* handle that was constructed has had close() called on it, and the
\* returned device has no part of it.
C17_AutoProbesAndFallsBack ==
    (factory.called /\ factory.camera_type = "auto")
        => /\ factory.raised = "none"
           /\ factory.made
           /\ cam.backend \in Backends
           /\ factory.probe # "open"
           /\ factory.outcome = "ok"
                 <=> (cam.backend = "picamera" /\ factory.probe = "closed")
           /\ factory.outcome \in {"import_error", "ctor_raise", "close_raise"}
                 <=> cam.backend = "usb"
           /\ factory.outcome \in {"import_error", "ctor_raise"}
                 <=> factory.probe = "none"
           /\ last.op = "new" => (cam.cap = "none" /\ ~is_open(cam))

\* the probe handle was constructed and its close() raised: a USBCamera
C17_Witness ==
    /\ factory.called /\ factory.camera_type = "auto"
    /\ factory.outcome = "close_raise"
    /\ factory.probe = "close_failed"
    /\ cam.backend = "usb"
    /\ last.op = "new"

\* C18: create_camera("usb", ...) returns a USBCamera and
\* create_camera("picamera", ...) a PiCamera, without a probe; the device has
\* the width, height and fps that were passed and, on USBCamera, which alone
\* takes one, the device index; it is closed when returned and stays closed
\* under read() and close() until open() is called.
C18_ExplicitTypeMakesClosedDevice ==
    /\ []((factory.called /\ factory.camera_type \in {"picamera", "usb"})
           => /\ factory.made /\ factory.raised = "none"
              /\ factory.probe = "none"
              /\ cam.backend = factory.camera_type
              /\ cam.width = factory.args.width
              /\ cam.height = factory.args.height
              /\ target_fps(cam) = factory.args.fps
              /\ cam.backend = "usb" => cam.device_id = factory.args.device_id
              /\ last.op = "new" => (cam.cap = "none" /\ ~is_open(cam)))
    /\ [][(factory.called /\ cam.cap = "none" /\ last'.op # "open")
              => (cam'.cap = "none" /\ ~is_open(cam'))]_vars

\* the call of test_create_camera_passes_parameters; the device was read
\* and has not been opened
C18_Witness ==
    /\ factory.called /\ factory.camera_type = "usb"
    /\ factory.args.device_id = 2 /\ cam.device_id = 2
    /\ cam.width = 1280 /\ cam.height = 720 /\ target_fps(cam) = 30
    /\ last.op = "read" /\ last.prev = "new"
    /\ ~is_open(cam)

\* C19: resolution is the requested width and height from construction until
\* the first open() and on PiCamera always; when open() has returned True on
\* USBCamera it is the mode the hardware reported back in that call, which is
\* the requested one when the hardware granted it; read() and close() leave
\* it as it is.
C19_ResolutionInEffect ==
    /\ [](cam.backend = "picamera" => resolution(cam) = <<cam.width, cam.height>>)
    /\ [](last.op = "new" => resolution(cam) = <<cam.width, cam.height>>)
    /\ []((cam.backend = "usb" /\ last.op = "open" /\ last.ok)
            => resolution(cam) = last.granted[1].mode)
    /\ [][last'.op # "open" => resolution(cam') = resolution(cam)]_vars

\* 640x480 was requested, the hardware granted 320x240, and a Frame was read
C19_Witness ==
    /\ cam.backend = "usb"
    /\ last.op = "read" /\ last.ok /\ last.prev = "open"
    /\ <<cam.width, cam.height>> = <<DefaultWidth, DefaultHeight>>
    /\ resolution(cam) = <<320, 240>>

\* C20: target_fps is the fps argument of the constructor (DefaultFps for the
\* devices of this specification) in every state: open(), whatever frame
\* rate the hardware reports back, read() and close() leave it alone.
C20_TargetFpsIsConfigured ==
    /\ target_fps(cam) = DefaultFps
    /\ last.pre.target_fps = DefaultFps

\* open() returned True and the hardware reported 30 frames per second
C20_Witness ==
    /\ cam.backend = "usb"
    /\ last.op = "open" /\ last.ok
    /\ last.granted[1].fps = 30
    /\ last.pre.sequence > 0
    /\ target_fps(cam) = DefaultFps

\* -------------------------------------------------- Frame and statistics
\* C21: a Frame made by Frame.create has the row count of its data as height
\* and the column count as width, whatever the shape of the data, and the
\* sequence number it was given: the device's counter after the increment.
\* Data with fewer than two dimensions gives no Frame.
C21_FrameDimensionsFromData ==
    /\ (last.op = "read" /\ last.ok)
          => /\ Len(last.frame) = 1
             /\ Len(last.frame[1].shape) >= 2
             /\ last.frame[1].height = last.frame[1].shape[1]
             /\ last.frame[1].width = last.frame[1].shape[2]
             /\ last.frame[1].sequence = last.pre.sequence + 1
    /\ \A sh \in Shapes :
          /\ FrameCreate(sh, cam.sequence).raised <=> Len(sh) < 2
          /\ FrameCreate(sh, cam.sequence).raised
                => FrameCreate(sh, cam.sequence).frame = NoFrame

\* a Frame made from two-dimensional data of 480 rows and 640 columns
C21_Witness ==
    /\ last.op = "read" /\ last.ok
    /\ last.frame[1].shape = <<480, 640>>
    /\ last.frame[1].width = 640 /\ last.frame[1].height = 480
    /\ last.frame[1].sequence = 2

\* C22: in the capture loop a read() that returns a Frame adds one to
\* frame_count; an fps_report is logged at such a read exactly when
\* fps_report_interval has passed since last_fps_report, it carries the number
\* of Frames read since the latest of the loop start, the report before and
\* the last successful reconnect, and it leaves frame_count at 0 and
\* last_fps_report at the time of the report; a read() that returns None
\* counts nothing and reports nothing.
C22_ReportCountsReads ==
    /\ [](report # NoReport
            => /\ pc \in {"process", "exit"}
               /\ report[1].elapsed >= fps_report_interval
               /\ frame_count = 0
               /\ last_fps_report = clock)
    /\ []((pc = "process" /\ report = NoReport)
            => /\ clock - last_fps_report < fps_report_interval
               /\ frame_count >= 1
               /\ frame_count = tally.reads)
    /\ [][/\ (pc = "read" /\ pc' = "process")
                => IF report' # NoReport
                   THEN /\ report'[1].frames = tally.reads + 1
                        /\ report'[1].elapsed = clock' - last_fps_report
                   ELSE /\ frame_count' = frame_count + 1
                        /\ last_fps_report' = last_fps_report
          /\ (pc = "read" /\ pc' = "reclose")
                => (report' = NoReport /\ frame_count' = frame_count
                    /\ last_fps_report' = last_fps_report)]_vars

\* a report of two Frames: the second read() took a whole interval
C22_Witness ==
    /\ pc = "process"
    /\ report # NoReport
    /\ report[1].frames = 2
    /\ report[1].elapsed = fps_report_interval
    /\ last.op = "read" /\ last.prev = "read"
    /\ frame_count = 0

\* C23: when open() has returned True in the reconnect loop and the flag is
\* still set, main() sets frame_count to 0 and last_fps_report to the current
\* time before it reads again: at every read() call frame_count is the
\* number of Frames read since that open(), the first read() after an open()
\* starts from an interval that began after it, and no fps_report carries
\* more Frames than the device delivered since its last successful open().
C23_ReconnectResetsStatistics ==
    /\ [](pc = "read" => frame_count = tally.reads)
    /\ []((pc = "read" /\ last.op = "open")
            => (frame_count = 0 /\ last_fps_report = clock))
    /\ [](report # NoReport => report[1].frames <= delivered)
    /\ [][(pc = "after_reconnect" /\ pc' = "loop" /\ running)
              => (frame_count' = 0 /\ last_fps_report' = clock')]_vars

\* a Frame was read, a read() failed, open() failed once and then returned
\* True: main() is about to read with fresh statistics
C23_Witness ==
    /\ pc = "read"
    /\ last.op = "open" /\ last.ok /\ last.pre.sequence > 0
    /\ tries.failures = 1
    /\ frame_count = 0
    /\ last_fps_report = clock
    /\ clock >= retry_interval

\* C24: signal_handler only clears the flag: the call in progress goes on.
\* With the flag cleared main() never arrives at a read() or open() call, so
\* the only call it still makes is the one it stood at when the flag was
\* cleared; a read() that returns None then is followed by close(), by no
\* open(), and by the end of the loop.
C24_CancellationPolledAtBoundaries ==
    [][/\ (running /\ ~running')
             => (pc' = pc /\ cam' = cam /\ last' = last /\ clock' = clock)
       /\ ~running => ~running'
       /\ (~running /\ pc' \in {"read", "reopen"}) => pc' = pc
       /\ (~running /\ pc = "read" /\ pc' # pc)
             => (last'.op = "read" /\ pc' \in {"process", "reclose"})
       /\ (~running /\ pc = "reclose" /\ pc' # pc)
             => (last'.op = "close" /\ pc' = "recheck")
       /\ (~running /\ pc = "recheck" /\ pc' # pc) => pc' = "after_reconnect"
       /\ (~running /\ pc = "after_reconnect" /\ pc' # pc) => pc' = "loop"
       /\ (~running /\ pc = "loop" /\ pc' # pc) => pc' = "finally"]_vars

\* the flag is cleared, a read() returned None and close() was called: the
\* reconnect loop was left without an open() call
C24_Witness ==
    /\ ~running /\ signalled
    /\ pc = "after_reconnect"
    /\ last.op = "close" /\ last.prev = "read"
    /\ tries = NoTries

\* C25: a read() call that returns None leaves the handle where it was: the
\* device holds the same handle after the call as before and is_open() has
\* the value it had, on both backends and for every way the capture fails.
C25_FailedReadKeepsHandle ==
    [][(last'.op = "read" /\ ~last'.ok /\ last' # last)
          => (cam'.cap = cam.cap /\ is_open(cam') = is_open(cam))]_vars

\* the capture call was made on an open device and read() returned None:
\* the device is still open
C25_Witness ==
    /\ last.op = "read" /\ ~last.ok /\ last.captured
    /\ is_open(last.pre)
    /\ cam.cap = "live"
    /\ is_open(cam)

\* ------------------------------------------------------ PiCamera.open
\* C26: PiCamera.open() returns True exactly when the import, Picamera2(),
\* configure() and start() all went well, whether or not setting the manual
\* focus raised; when Picamera2(), configure() or start() raised, it returns
\* False and the device holds no handle.
C26_FocusFailureTolerated ==
    /\ (cam.backend = "picamera" /\ last.op = "open" /\ last.ok)
          => is_open(cam)
    /\ (cam.backend = "picamera" /\ last.op = "open" /\ ~last.ok)
          => (cam.cap = "none" /\ ~is_open(cam))
    /\ cam.backend = "picamera"
          => \A o \in PiOpenOutcomes(picamera2_installed) :
                /\ PiOpen(cam, o).ret <=> o.at = "none"
                /\ ~PiOpen(cam, o).ret => PiOpen(cam, o).cam.cap = "none"

\* set_controls() raised and open() returned True
C26_Witness ==
    /\ cam.backend = "picamera"
    /\ last.op = "open" /\ last.ok
    /\ last.granted[1].focus = "raise"
    /\ is_open(cam)
    /\ cam.sequence = 0

\* ------------------------------------------------------ zero elapsed time
\* C27: a read() that returns a Frame and leaves two or more timestamps in
\* the window, the newest equal to the oldest, leaves measured_fps at the
\* value it had before the call; the call still adds one to the sequence
\* counter and appends its timestamp to the window.
C27_ZeroSpanKeepsFps ==
    (/\ last.op = "read" /\ last.ok
     /\ Len(cam.frame_times) >= 2
     /\ Span(cam.frame_times) = 0)
        => /\ fps(cam) = fps(last.pre)
           /\ cam.sequence = last.pre.sequence + 1
           /\ last.frame[1].sequence = cam.sequence
           /\ cam.frame_times
                 = Append(last.pre.frame_times, stamps[Len(stamps)])

\* two reads at the same instant on a device that measured one frame per
\* second before it was closed and opened again: the value is kept
C27_Witness ==
    /\ last.op = "read" /\ last.ok
    /\ Len(cam.frame_times) = 2
    /\ Span(cam.frame_times) = 0
    /\ fps(cam) = <<1, 1>>
    /\ fps(last.pre) = <<1, 1>>

\* ------------------------------------------------- the supervisor's calls
\* C28: main() calls read() only in an open epoch: the device call before
\* every read() of main() is an open() that returned True or a read() that
\* returned a Frame, never a close() and never an open() that returned False.
C28_ReadsOnlyAfterSuccessfulOpen ==
    /\ [](pc = "read" => (last.op \in {"open", "read"} /\ last.ok))
    /\ [][(pc = "read" /\ pc' # pc)
              => /\ last'.op = "read"
                 /\ last'.prev \in {"open", "read"}
                 /\ last.ok]_vars

\* the first read() after a reconnect that took two open() calls
C28_Witness ==
    /\ pc \in {"process", "reclose"}
    /\ last.op = "read" /\ last.prev = "open"
    /\ tries = [opens |-> 2, failures |-> 1, sleeps |-> 1]
    /\ last.pre.sequence = 0
    /\ clock >= retry_interval

\* C29: main() returns a status only after close(): on every way out of the
\* capture loop the last device call is a close(), made after the last open()
\* or read(), and the device holds no handle when the status is returned.
C29_CloseBeforeReturn ==
    /\ [](pc = "exit" => (last.op = "close" /\ cam.cap = "none"))
    /\ [][(pc' = "exit" /\ pc # "exit")
              => /\ last'.op = "close"
                 /\ last'.pre = cam
                 /\ last'.prev = last.op
                 /\ cam'.cap = "none"]_vars

\* cancelled while reconnecting (frame_count was not reset), the open() in
\* progress then succeeded: the handle it acquired is the one close() released
\* before main() returned 0
C29_Witness ==
    /\ pc = "exit" /\ status = 0 /\ signalled
    /\ last.op = "close" /\ last.prev = "open" /\ last.pre.cap = "live"
    /\ tries.opens >= 1 /\ frame_count >= 1
    /\ cam.cap = "none"

\* ------------------------------------------------------------ recoverability
\* the retry loops, and the point at which a read failure has been seen and
\* the device is about to be closed
RecoveringPcs == ConnectingPcs \cup {"reclose"}

\* the sleeps the retry loop may still need before open() returns True
SleepsNeeded ==
    IF pc = "reclose" THEN MaxFails
    ELSE IF pc \in {"startup_sleep", "resleep"} THEN MaxFails - fails + 1
    ELSE MaxFails - fails

\* the run is not cut short by the largest clock value
TimeToRetry == clock + SleepsNeeded * retry_interval <= MainMaxClock

\* some outcome of open() on this device returns True
OpenCanSucceed == \E o \in OpenOutcomes : DevOpen(cam, o).ret

\* C30: with no cancellation and no unexpected error, with every call
\* returning and open() not failing forever, main() gets from every point of
\* the startup loop and of the reconnect branch to the capture loop and
\* issues a read() there: the first device call after an open() that
\* returned True.
C30_EventuallyReads ==
    (pc \in RecoveringPcs /\ OpenCanSucceed /\ TimeToRetry)
        ~> (/\ pc \in {"process", "reclose"}
            /\ last.op = "read" /\ last.prev = "open")

\* a read() that returned a Frame, issued after a read failure (more time has
\* passed than this retry loop and this read() took) and a reconnect that
\* took retries
C30_Witness ==
    /\ pc = "process"
    /\ last.op = "read" /\ last.prev = "open" /\ last.ok
    /\ tries.failures >= 1
    /\ tries.opens = tries.failures + 1
    /\ tries.sleeps = tries.failures
    /\ clock > tries.sleeps * retry_interval + fps_report_interval
    /\ ~signalled

\* ------------------------------------------------- the window and the counter
\* C31: the timing window holds min(sequence counter, fps_window) timestamps
\* in every device state: an open() that returned True left both at zero, a
\* read() left both as they were or appended one timestamp (dropping the
\* oldest of a full window) and added one to the counter, and close() and an
\* open() that returned False left both as they were.
C31_WindowLengthFollowsSequence ==
    /\ Len(cam.frame_times) = Min(cam.sequence, fps_window)
    /\ (last.op = "open" /\ last.ok)
           => (cam.sequence = 0 /\ cam.frame_times = <<>>)
    /\ ((last.op = "open" /\ ~last.ok) \/ last.op = "close")
           => /\ cam.sequence = last.pre.sequence
              /\ cam.frame_times = last.pre.frame_times
    /\ last.op = "read"
           => \/ /\ cam.sequence = last.pre.sequence
                 /\ cam.frame_times = last.pre.frame_times
              \/ /\ cam.sequence = last.pre.sequence + 1
                 /\ cam.frame_times =
                        LastN(Append(last.pre.frame_times, clock),
                              Min(Len(last.pre.frame_times) + 1, fps_window))

\* the read() that made the counter pass the size of the full window
C31_Witness ==
    /\ last.op = "read"
    /\ last.pre.sequence = fps_window
    /\ Len(last.pre.frame_times) = fps_window
    /\ cam.sequence = fps_window + 1
    /\ Len(cam.frame_times) = fps_window

\* C32: on USBCamera the reported resolution changes only in an open() that
\* returns True: after an open() that returned False, after a read() and
\* after a close() it is what it was before the call.
C32_ResolutionChangesOnlyOnSuccess ==
    (/\ cam.backend = "usb"
     /\ \/ last.op = "open" /\ ~last.ok
        \/ last.op \in {"read", "close"})
        => resolution(cam) = resolution(last.pre)

====
